---- MODULE Spec2Model ----
(***************************************************************************)
(* State-machine model of 2d_classification/monai_201.ipynb: the cells of  *)
(* the notebook run top to bottom as blocking calls.  The trainer and the  *)
(* evaluators are ignite engines; each action below is one engine event    *)
(* with the handlers the notebook attaches to it, in attachment order.     *)
(* Model weights are abstracted to a small integer, an image to its index  *)
(* in the test section, a file name to the sequence of its code points.    *)
(***************************************************************************)
EXTENDS Integers, Sequences, FiniteSets, TLC

\* ---------------------------------------------------------------- bounds
MaxWeight == 2      \* weights range over 0..MaxWeight
EpochLength == 2    \* training batches per epoch (len(dataset) / 512)
ValLength == 1      \* validation batches per validation run
MaxTest == 12       \* at most this many images in the test section

\* ------------------------------------------------------ program constants
max_epochs == 5
save_interval == 2
val_interval == 1
out_channels == 6
batch_size == 1
max_items_to_print0 == 10

Weights == 0..MaxWeight
NoFile == << >>                \* a checkpoint file that does not exist
File(w) == <<w>>               \* a checkpoint file holding weights w
NoCsv == [exists |-> FALSE, rows |-> << >>]
Csv(rows) == [exists |-> TRUE, rows |-> rows]

\* ------------------------------------------------------------ environment
\* The three states of MONAI_DATA_DIRECTORY: unset, empty, a path.
EnvStates ==
    { [isset |-> FALSE, val |-> ""],
      [isset |-> TRUE,  val |-> ""],
      [isset |-> TRUE,  val |-> "/workspace/Data"] }

\* os.environ.get(name): None when the variable is unset, else its value.
environ_get(e) ==
    IF e.isset THEN [none |-> FALSE, val |-> e.val]
               ELSE [none |-> TRUE,  val |-> ""]

\* tempfile.mkdtemp(): a fresh directory, never the name of an existing one.
mkdtemp == "/tmp/tmpdir0"

\* Mutant: the truthiness test `if not directory` instead of `is None`.
select_root_dir_truthy(directory) ==
    IF directory.none \/ directory.val = ""
        THEN [root |-> mkdtemp, made |-> {mkdtemp}]
        ELSE [root |-> directory.val, made |-> {}]

\* root_dir = tempfile.mkdtemp() if directory is None else directory
select_root_dir(directory) ==
    IF directory.none
        THEN [root |-> mkdtemp, made |-> {mkdtemp}]
        ELSE [root |-> directory.val, made |-> {}]

\* ------------------------------------------------- names and their order
\* The entries of <root_dir>/MedNIST after extraction, as code points.
MedNISTEntries ==
    { [name |-> <<65, 98, 100, 111, 109, 101, 110, 67, 84>>, is_dir |-> TRUE],  \* AbdomenCT
      [name |-> <<66, 114, 101, 97, 115, 116, 77, 82, 73>>,  is_dir |-> TRUE],  \* BreastMRI
      [name |-> <<67, 88, 82>>,                              is_dir |-> TRUE],  \* CXR
      [name |-> <<67, 104, 101, 115, 116, 67, 84>>,          is_dir |-> TRUE],  \* ChestCT
      [name |-> <<72, 97, 110, 100>>,                        is_dir |-> TRUE],  \* Hand
      [name |-> <<72, 101, 97, 100, 67, 84>>,                is_dir |-> TRUE],  \* HeadCT
      [name |-> <<82, 69, 65, 68, 77, 69, 46, 109, 100>>,    is_dir |-> FALSE] }\* README.md

\* Python's str comparison: lexicographic on code points.
RECURSIVE StrLess(_, _)
StrLess(a, b) ==
    IF b = <<>> THEN FALSE
    ELSE IF a = <<>> THEN TRUE
    ELSE IF Head(a) # Head(b) THEN Head(a) < Head(b)
    ELSE StrLess(Tail(a), Tail(b))

\* sorted(iterable of distinct str): ascending by StrLess.
RECURSIVE sorted(_)
sorted(S) ==
    IF S = {} THEN <<>>
    ELSE LET m == CHOOSE x \in S : \A y \in S \ {x} : StrLess(x, y)
         IN  <<m>> \o sorted(S \ {m})

\* Mutant: the names in listing order (here: descending), not sorted.
list_class_names_unsorted(entries) ==
    LET s == sorted({ x.name : x \in { e \in entries : e.is_dir } })
    IN  [i \in 1..Len(s) |-> s[Len(s) + 1 - i]]

\* sorted(f"{x.name}" for x in dataset_dir.iterdir() if x.is_dir())
list_class_names(entries) ==
    sorted({ x.name : x \in { e \in entries : e.is_dir } })

\* --------------------------------------------------------------- network
\* The network's output for an image under given weights: out_channels
\* logits (any deterministic function of weights and image will do).
Logits(w, img) ==
    [c \in 0..(out_channels - 1) |-> ((w + 2) * (img + 1) * (c + 3) + c * c + img) % 7]

\* Mutant: a 1-based class index.
Argmax_onebased(v) ==
    1 + (CHOOSE i \in DOMAIN v :
            /\ \A j \in DOMAIN v : v[j] <= v[i]
            /\ \A j \in DOMAIN v : j < i => v[j] < v[i])

\* AsDiscreted(keys="pred", argmax=True): index of the first maximal logit.
Argmax(v) ==
    CHOOSE i \in DOMAIN v :
        /\ \A j \in DOMAIN v : v[j] <= v[i]
        /\ \A j \in DOMAIN v : j < i => v[j] < v[i]

\* CSV writer: a float32 class index i is written as the text "i.0",
\* kept here as <<integer part, fractional digit>>.
FormatFloat(i) == <<i, 0>>

\* int(float(idx)): parse the text as a float and truncate.
IntOfFloatText(t) == t[1]

VARIABLES
    pc,             \* position of the notebook: which cell / engine event is next
    env,            \* MONAI_DATA_DIRECTORY in the process environment
    directory,      \* os.environ.get result
    root_dir,       \* the selected data directory
    tmpdirs,        \* directories created by tempfile.mkdtemp
    data_roots,     \* section / listing -> the root_dir it was built from
    weights,        \* parameters of the one shared model object
    epoch,          \* trainer.state.epoch
    iteration,      \* training iterations done in the current epoch
    val_iter,       \* iterations done in the running validation
    val_runs,       \* validation runs completed
    interval_ckpt,  \* ./eval: epoch -> weights of the interval checkpoints
    final_ckpt,     \* ./eval/checkpoint.pt: File(w), or NoFile
    final_written,  \* ghost: this run's trainer wrote checkpoint.pt
    trained,        \* ghost: <<weights when the last epoch ended>>
    class_names,    \* sorted class directory names
    testdata,       \* number of images in the test section
    test_pos,       \* test images consumed by the inference run
    restored,       \* ghost: <<weights read by CheckpointLoader>>
    saver_rows,     \* rows buffered by ClassificationSaver
    used_weights,   \* ghost: weights each buffered row was computed with
    csv,            \* ./predictions.csv: Csv(rows), or NoCsv
    arr,            \* the array np.loadtxt returned
    arr_pos,        \* rows of arr consumed by the display loop
    max_items_to_print,
    printed         \* lines printed by the display cell

vars == << pc, env, directory, root_dir, tmpdirs, data_roots, weights, epoch,
           iteration, val_iter, val_runs, interval_ckpt, final_ckpt,
           final_written, trained, class_names, testdata, test_pos, restored,
           saver_rows, used_weights, csv, arr, arr_pos, max_items_to_print,
           printed >>

setup_vars == << env, directory, root_dir, tmpdirs >>
train_vars == << epoch, iteration, val_iter, val_runs, interval_ckpt,
                 final_written, trained >>
infer_vars == << class_names, testdata, test_pos, restored, saver_rows,
                 used_weights >>
show_vars  == << arr, arr_pos, max_items_to_print, printed >>

\* A row left in predictions.csv by an earlier session.
StaleRow == [fn |-> [root |-> "/old", img |-> 0], val |-> FormatFloat(0)]

\* The working directory may hold the files of an earlier session.
Init ==
    /\ pc = "start"
    /\ env \in EnvStates
    /\ directory = [none |-> TRUE, val |-> ""]
    /\ root_dir = ""
    /\ tmpdirs = {}
    /\ data_roots = << >>
    /\ weights = 0
    /\ epoch = 0
    /\ iteration = 0
    /\ val_iter = 0
    /\ val_runs = 0
    /\ interval_ckpt = << >>
    /\ final_ckpt \in {NoFile} \cup { File(w) : w \in Weights }
    /\ final_written = FALSE
    /\ trained = << >>
    /\ class_names = << >>
    /\ testdata = 0
    /\ test_pos = 0
    /\ restored = << >>
    /\ saver_rows = << >>
    /\ used_weights = << >>
    /\ csv \in {NoCsv, Csv(<<StaleRow>>)}
    /\ arr = [ndim |-> 0, data |-> << >>]
    /\ arr_pos = 0
    /\ max_items_to_print = 0
    /\ printed = << >>

\* ---------------------------------------------------- cell: data directory
SetupDataDirectory ==
    /\ pc = "start"
    /\ LET d == environ_get(env)
           r == select_root_dir(d)
       IN  /\ directory' = d
           /\ root_dir' = r.root
           /\ tmpdirs' = tmpdirs \cup r.made
    /\ pc' = "data_dir"
    /\ UNCHANGED << env, data_roots, weights, train_vars, final_ckpt,
                    infer_vars, csv, show_vars >>

\* ------------------------------------------------------- cell: datasets
LoadDatasets ==
    /\ pc = "data_dir"
    /\ data_roots' = [s \in {"training", "validation"} |-> root_dir]
    /\ pc' = "datasets"
    /\ UNCHANGED << setup_vars, weights, train_vars, final_ckpt, infer_vars,
                    csv, show_vars >>

\* ------------------------------------- cell: network, evaluator, trainer
DefineTrainer ==
    /\ pc = "datasets"
    /\ weights' \in Weights            \* densenet121(...): random initialisation
    /\ pc' = "defined"
    /\ UNCHANGED << setup_vars, data_roots, train_vars, final_ckpt,
                    infer_vars, csv, show_vars >>

\* ------------------------------------------------------ cell: trainer.run
\* STARTED and the first EPOCH_STARTED.
TrainerRun ==
    /\ pc = "defined"
    /\ epoch' = 1
    /\ iteration' = 0
    /\ pc' = "train_iter"
    /\ UNCHANGED << setup_vars, data_roots, weights, val_iter, val_runs,
                    interval_ckpt, final_written, trained, final_ckpt,
                    infer_vars, csv, show_vars >>

\* One training batch: forward, loss, backward, optimizer step.
TrainIteration ==
    /\ pc = "train_iter"
    /\ iteration < EpochLength
    /\ weights' \in Weights
    /\ iteration' = iteration + 1
    /\ UNCHANGED << pc, setup_vars, data_roots, epoch, val_iter, val_runs,
                    interval_ckpt, final_written, trained, final_ckpt,
                    infer_vars, csv, show_vars >>

\* Mutant: validation every second epoch.
validation_due_every2(e) == e % 2 = 0

\* ValidationHandler(epoch_level=True, interval=1): EPOCH_COMPLETED(every=1).
validation_due(e) == e % val_interval = 0

\* CheckpointSaver(save_interval=2): EPOCH_COMPLETED(every=save_interval).
interval_save_due(e) == e % save_interval = 0

\* The engine goes on to another epoch while state.epoch < max_epochs.
more_epochs(e) == e < max_epochs

\* EPOCH_COMPLETED, first handler: ValidationHandler starts evaluator.run
\* when a validation is due.
ValidationStart ==
    /\ pc = "train_iter"
    /\ iteration = EpochLength
    /\ val_iter' = 0
    /\ pc' = IF validation_due(epoch) THEN "validating" ELSE "epoch_handlers"
    /\ UNCHANGED << setup_vars, data_roots, weights, epoch, iteration,
                    val_runs, interval_ckpt, final_written, trained,
                    final_ckpt, infer_vars, csv, show_vars >>

\* Mutant: the evaluator's forward pass touches the weights.
eval_forward_updates(w) == (w + 1) % (MaxWeight + 1)

\* SupervisedEvaluator's iteration: forward only, in eval mode, without an
\* optimizer; the weights after it are the weights before it.
eval_forward(w) == w

\* One validation batch.
ValIteration ==
    /\ pc = "validating"
    /\ val_iter < ValLength
    /\ val_iter' = val_iter + 1
    /\ weights' = eval_forward(weights)
    /\ UNCHANGED << pc, setup_vars, data_roots, epoch, iteration,
                    val_runs, interval_ckpt, final_written, trained,
                    final_ckpt, infer_vars, csv, show_vars >>

\* The validation run returns; the epoch's remaining handlers follow.
ValidationDone ==
    /\ pc = "validating"
    /\ val_iter = ValLength
    /\ val_runs' = val_runs + 1
    /\ pc' = "epoch_handlers"
    /\ UNCHANGED << setup_vars, data_roots, weights, epoch, iteration,
                    val_iter, interval_ckpt, final_written, trained,
                    final_ckpt, infer_vars, csv, show_vars >>

\* EPOCH_COMPLETED, second handler: CheckpointSaver's interval save; then
\* the engine starts the next epoch or leaves the loop.
EpochCompleted ==
    /\ pc = "epoch_handlers"
    /\ interval_ckpt' =
          IF interval_save_due(epoch)
              THEN [e \in DOMAIN interval_ckpt \cup {epoch} |->
                        IF e = epoch THEN weights ELSE interval_ckpt[e]]
              ELSE interval_ckpt
    /\ IF more_epochs(epoch)
          THEN /\ epoch' = epoch + 1
               /\ iteration' = 0
               /\ pc' = "train_iter"
               /\ trained' = trained
          ELSE /\ pc' = "completing"
               /\ trained' = <<weights>>
               /\ UNCHANGED << epoch, iteration >>
    /\ UNCHANGED << setup_vars, data_roots, weights, val_iter, val_runs,
                    final_written, final_ckpt, infer_vars, csv, show_vars >>

\* Mutant: the final save writes the newest interval checkpoint again.
final_save_newest_interval(old, w, saved) ==
    IF DOMAIN saved = {} THEN [file |-> File(w), written |-> TRUE]
    ELSE [file |-> File(saved[CHOOSE e \in DOMAIN saved : \A f \in DOMAIN saved : f <= e]),
          written |-> TRUE]

\* Mutant: save_final is off, the file in ./eval stays as it was.
final_save_off(old, w, saved) == [file |-> old, written |-> FALSE]

\* CheckpointSaver(save_dir="./eval", save_dict={"model": model},
\* save_final=True, final_filename="checkpoint.pt"): at COMPLETED the state of
\* the model object replaces ./eval/checkpoint.pt.
final_save(old, w, saved) == [file |-> File(w), written |-> TRUE]

\* COMPLETED: CheckpointSaver writes ./eval/checkpoint.pt; trainer.run returns.
TrainerCompleted ==
    /\ pc = "completing"
    /\ LET r == final_save(final_ckpt, weights, interval_ckpt)
       IN  /\ final_ckpt' = r.file
           /\ final_written' = r.written
    /\ pc' = "trained"
    /\ UNCHANGED << setup_vars, data_roots, weights, epoch, iteration,
                    val_iter, val_runs, interval_ckpt, trained, infer_vars,
                    csv, show_vars >>

\* ------------------------------------------------- cell: test dataset
PrepareTest ==
    /\ pc = "trained"
    /\ class_names' = list_class_names(MedNISTEntries)
    /\ \E n \in 1..MaxTest : testdata' = n
    /\ data_roots' = [s \in DOMAIN data_roots \cup {"class_names", "test"} |-> root_dir]
    /\ pc' = "testready"
    /\ UNCHANGED << setup_vars, weights, train_vars, final_ckpt, test_pos,
                    restored, saver_rows, used_weights, csv, show_vars >>

\* The environment: the checkpoint file becomes unavailable before inference.
CheckpointRemoved ==
    /\ pc = "testready"
    /\ final_ckpt # NoFile
    /\ final_ckpt' = NoFile
    /\ UNCHANGED << pc, setup_vars, data_roots, weights, train_vars,
                    infer_vars, csv, show_vars >>

\* Mutant: a loader that goes on without the file.
load_checkpoint_lenient(file, w) ==
    IF file = NoFile THEN [ok |-> TRUE, w |-> w]
                     ELSE [ok |-> TRUE, w |-> file[1]]

\* CheckpointLoader(load_path="./eval/checkpoint.pt", load_dict={"model": model}):
\* torch.load raises when the file is missing, else the model takes its state.
load_checkpoint(file, w) ==
    IF file = NoFile THEN [ok |-> FALSE, w |-> w]
                     ELSE [ok |-> TRUE, w |-> file[1]]

\* ---------------------------------------------- cell: inference evaluator
\* STARTED: CheckpointLoader, then ClassificationSaver clears its buffer.
InferenceStart ==
    /\ pc = "testready"
    /\ LET r == load_checkpoint(final_ckpt, weights)
       IN  IF r.ok
             THEN /\ weights' = r.w
                  /\ restored' = IF final_ckpt = NoFile THEN << >> ELSE <<r.w>>
                  /\ saver_rows' = << >>
                  /\ used_weights' = << >>
                  /\ test_pos' = 0
                  /\ pc' = "infer_iter"
             ELSE /\ pc' = "inference_error"
                  /\ UNCHANGED << weights, restored, saver_rows, used_weights,
                                  test_pos >>
    /\ UNCHANGED << setup_vars, data_roots, train_vars, final_ckpt,
                    class_names, testdata, csv, show_vars >>

Min(a, b) == IF a < b THEN a ELSE b

\* Mutant: the loader hands out two images at a time.
next_batch_pairs(pos, n) ==
    [k \in 1..Min(2, n - pos) |-> pos + k]

\* DataLoader(testdata, batch_size=1): the next batch_size images, in order.
next_batch(pos, n) ==
    [k \in 1..Min(batch_size, n - pos) |-> pos + k]

\* ClassificationSaver on ITERATION_COMPLETED: batch_transform gives the meta
\* of batch[0], output_transform the predictions; the two are zipped.
classification_rows(batch, w, root) ==
    LET preds == [k \in 1..Len(batch) |-> Argmax(Logits(w, batch[k]))]
        metas == << [root |-> root, img |-> batch[1]] >>
    IN  [k \in 1..Min(Len(metas), Len(preds)) |->
            [fn |-> metas[k], pred |-> preds[k]]]

\* One inference batch: forward, argmax, ClassificationSaver buffers the row.
InferIteration ==
    /\ pc = "infer_iter"
    /\ test_pos < testdata
    /\ LET batch == next_batch(test_pos, testdata)
           rows == classification_rows(batch, weights, root_dir)
       IN  /\ saver_rows' = saver_rows \o rows
           /\ used_weights' = used_weights \o [k \in 1..Len(rows) |-> weights]
           /\ test_pos' = test_pos + Len(batch)
    /\ weights' = eval_forward(weights)
    /\ UNCHANGED << pc, setup_vars, data_roots, train_vars,
                    final_ckpt, class_names, testdata, restored, csv,
                    show_vars >>

\* ClassificationSaver on EPOCH_COMPLETED: the csv writer (overwrite=True)
\* replaces ./predictions.csv by one line per buffered row.
write_csv(old, rows) ==
    Csv([k \in 1..Len(rows) |->
            [fn |-> rows[k].fn, val |-> FormatFloat(rows[k].pred)]])

\* EPOCH_COMPLETED and COMPLETED of the inference run.
InferenceCompleted ==
    /\ pc = "infer_iter"
    /\ test_pos >= testdata
    /\ csv' = write_csv(csv, saver_rows)
    /\ pc' = "inferred"
    /\ UNCHANGED << setup_vars, data_roots, weights, train_vars, final_ckpt,
                    infer_vars, show_vars >>

\* ------------------------------------------------------ cell: display
\* np.loadtxt(..., delimiter=",", dtype=str): the rows split at the comma;
\* the result is squeezed, so a file of one row gives a 1-D array.
loadtxt(rows) ==
    IF Len(rows) = 1
        THEN [ndim |-> 1, data |-> << rows[1].fn, rows[1].val >>]
        ELSE [ndim |-> 2, data |-> [k \in 1..Len(rows) |-> << rows[k].fn, rows[k].val >>]]

\* max_items_to_print = 10 and the array the for loop iterates over.
DisplayLoad ==
    /\ pc = "inferred"
    /\ arr' = loadtxt(csv.rows)
    /\ arr_pos' = 0
    /\ max_items_to_print' = max_items_to_print0
    /\ printed' = << >>
    /\ pc' = "display"
    /\ UNCHANGED << setup_vars, data_roots, weights, train_vars, final_ckpt,
                    infer_vars, csv >>

\* One pass of the for loop: unpack the element into fn, idx (possible only
\* for a row of a 2-D array), print, count down, break at zero.
DisplayStep ==
    /\ pc = "display"
    /\ arr_pos < Len(arr.data)
    /\ LET e == arr.data[arr_pos + 1]
       IN  IF arr.ndim # 2
             THEN /\ pc' = "display_error"      \* ValueError on unpacking
                  /\ UNCHANGED << arr_pos, max_items_to_print, printed >>
             ELSE LET i == IntOfFloatText(e[2])
                  IN  IF (i + 1) \notin DOMAIN class_names
                        THEN /\ pc' = "display_error"      \* IndexError
                             /\ UNCHANGED << arr_pos, max_items_to_print, printed >>
                        ELSE /\ printed' = Append(printed, << e[1], class_names[i + 1] >>)
                             /\ max_items_to_print' = max_items_to_print - 1
                             /\ arr_pos' = arr_pos + 1
                             /\ pc' = IF max_items_to_print' = 0
                                         \/ arr_pos' = Len(arr.data)
                                      THEN "done" ELSE "display"
    /\ UNCHANGED << setup_vars, data_roots, weights, train_vars, final_ckpt,
                    infer_vars, csv, arr >>

Next ==
    \/ SetupDataDirectory
    \/ LoadDatasets
    \/ DefineTrainer
    \/ TrainerRun
    \/ TrainIteration
    \/ ValidationStart
    \/ ValIteration
    \/ ValidationDone
    \/ EpochCompleted
    \/ TrainerCompleted
    \/ PrepareTest
    \/ CheckpointRemoved
    \/ InferenceStart
    \/ InferIteration
    \/ InferenceCompleted
    \/ DisplayLoad
    \/ DisplayStep

Spec == Init /\ [][Next]_vars

\* ===================================================================
\* Properties
\* ===================================================================
BeforeTraining == {"start", "data_dir", "datasets", "defined"}
InTraining == {"train_iter", "validating", "epoch_handlers", "completing"}
InferenceRan == {"infer_iter", "inferred", "display", "done", "display_error"}
AfterInference == {"inferred", "display", "done", "display_error"}

TestPath(i) == [root |-> root_dir, img |-> i]

\* C1: once the inference run has completed, predictions.csv has exactly one
\* row per test image: as many rows as test items, and each test image's
\* path in exactly one row.
C1_OneRowPerTestImage ==
    pc \in AfterInference =>
        /\ csv.exists
        /\ Len(csv.rows) = testdata
        /\ \A i \in 1..testdata :
              Cardinality({ k \in DOMAIN csv.rows : csv.rows[k].fn = TestPath(i) }) = 1

C1_Witness ==
    /\ pc = "inferred"
    /\ testdata >= 3
    /\ Len(csv.rows) = testdata

\* C2: every prediction row carries a class index i with 0 <= i < 6 that is
\* an argmax of the network's output for that image, whatever the weights.
C2_IndexInRange ==
    /\ \A k \in DOMAIN saver_rows :
          /\ saver_rows[k].pred \in 0..(out_channels - 1)
          /\ \A j \in 0..(out_channels - 1) :
                Logits(used_weights[k], saver_rows[k].fn.img)[j]
                    <= Logits(used_weights[k], saver_rows[k].fn.img)[saver_rows[k].pred]
    /\ \A k \in DOMAIN csv.rows :
          /\ IntOfFloatText(csv.rows[k].val) >= 0
          /\ IntOfFloatText(csv.rows[k].val) < out_channels
    /\ pc \in AfterInference =>
          \A k \in DOMAIN csv.rows :
              IntOfFloatText(csv.rows[k].val) = saver_rows[k].pred

C2_Witness ==
    /\ pc = "inferred"
    /\ \E k \in DOMAIN csv.rows : IntOfFloatText(csv.rows[k].val) = out_channels - 1
    /\ \E k \in DOMAIN csv.rows : IntOfFloatText(csv.rows[k].val) = 0

\* Orders on names, stated apart from the model's sort.
CodePointLess(a, b) ==
    \E k \in 1..Len(b) :
        /\ k - 1 <= Len(a)
        /\ \A j \in 1..(k - 1) : a[j] = b[j]
        /\ (Len(a) = k - 1 \/ a[k] < b[k])

FoldCase(c) == IF c >= 97 /\ c <= 122 THEN c - 32 ELSE c

AlphabeticalLess(a, b) ==
    CodePointLess([i \in DOMAIN a |-> FoldCase(a[i])],
                  [i \in DOMAIN b |-> FoldCase(b[i])])

ClassDirNames == { e.name : e \in { x \in MedNISTEntries : x.is_dir } }

\* The rows are <path>,<index> pairs; every printed line shows the name at
\* position index of the class directory names in ascending Less order;
\* the lookup never fails.
C3_Statement(Less(_, _)) ==
    /\ pc \in AfterInference =>
          \A k \in DOMAIN csv.rows :
              /\ csv.rows[k].fn.root = root_dir
              /\ csv.rows[k].fn.img \in 1..testdata
              /\ csv.rows[k].val = FormatFloat(saver_rows[k].pred)
    /\ \A k \in DOMAIN printed :
          LET idx == IntOfFloatText(csv.rows[k].val)
          IN  /\ printed[k][1] = csv.rows[k].fn
              /\ printed[k][2] \in ClassDirNames
              /\ Cardinality({ y \in ClassDirNames : Less(y, printed[k][2]) }) = idx
    /\ pc = "display_error" => arr.ndim # 2

\* C3 (as stated): the name printed for a row is the one at position
\* predicted_class_index of the class directory names in ascending
\* alphabetical order.
C3_AlphabeticalOrder == C3_Statement(AlphabeticalLess)

\* C3 (amended): the name printed for a row is the one at position
\* predicted_class_index of the class directory names in ascending order of
\* Python's string comparison (by code point: "CXR" before "ChestCT").
C3_CodePointOrder == C3_Statement(CodePointLess)

C3_Witness ==
    /\ pc = "done"
    /\ \E k \in DOMAIN printed :
          /\ printed[k][2] = <<67, 88, 82>>
          /\ IntOfFloatText(csv.rows[k].val) = 2

\* C4: root_dir follows MONAI_DATA_DIRECTORY: set (to a path or to the empty
\* string) gives exactly that value and no temporary directory; unset gives
\* a newly created temporary directory; all datasets and the class-name
\* listing are built from that root_dir.
C4_RootDirFromEnvironment ==
    /\ pc # "start" =>
          /\ env.isset => (root_dir = env.val /\ tmpdirs = {})
          /\ ~env.isset => (root_dir \in tmpdirs /\ Cardinality(tmpdirs) = 1)
    /\ \A s \in DOMAIN data_roots : data_roots[s] = root_dir
    /\ pc \notin {"start", "data_dir"} =>
          {"training", "validation"} \subseteq DOMAIN data_roots
    /\ pc \in {"testready", "inference_error"} \cup InferenceRan =>
          DOMAIN data_roots = {"training", "validation", "test", "class_names"}

C4_Witness ==
    /\ pc = "testready"
    /\ env = [isset |-> TRUE, val |-> ""]
    /\ root_dir = ""
    /\ data_roots["test"] = ""

\* C5: with ./eval/checkpoint.pt missing when the inference run starts, the
\* run ends in an error, no prediction row is buffered or written, and the
\* weights stay as they were.
C5_MissingCheckpointIsAnError ==
    /\ [](pc = "inference_error" =>
             /\ final_ckpt = NoFile
             /\ saver_rows = << >>
             /\ restored = << >>
             /\ csv \in {NoCsv, Csv(<<StaleRow>>)}
             /\ weights = trained[1])
    /\ [][(pc = "testready" /\ pc' # "testready") =>
             IF final_ckpt = NoFile
                 THEN /\ pc' = "inference_error"
                      /\ csv' = csv
                      /\ weights' = weights
                      /\ saver_rows' = saver_rows
                 ELSE pc' = "infer_iter"]_vars
    /\ [][pc = "inference_error" => UNCHANGED vars]_vars

C5_Witness ==
    /\ pc = "inference_error"
    /\ final_written
    /\ final_ckpt = NoFile
    /\ csv = Csv(<<StaleRow>>)

\* C6: trainer.run() runs exactly 5 epochs and validates exactly once at the
\* end of each: the k-th validation runs after all iterations of epoch k and
\* is over before epoch k+1 begins; 5 validation runs in total.
C6_FiveEpochsFiveValidations ==
    /\ epoch <= 5
    /\ pc \in BeforeTraining => (epoch = 0 /\ val_runs = 0)
    /\ pc = "train_iter" => val_runs = epoch - 1
    /\ pc = "validating" => (iteration = EpochLength /\ val_runs = epoch - 1)
    /\ pc = "epoch_handlers" => (iteration = EpochLength /\ val_runs = epoch)
    /\ pc \notin BeforeTraining \cup {"train_iter", "validating", "epoch_handlers"} =>
          (epoch = 5 /\ val_runs = 5 /\ iteration = EpochLength)

C6_Witness ==
    /\ pc = "trained"
    /\ epoch = 5
    /\ val_runs = 5

EpochsCompleted ==
    IF pc \in BeforeTraining THEN 0
    ELSE IF pc \in {"train_iter", "validating", "epoch_handlers"} THEN epoch - 1
    ELSE epoch

\* C7: interval checkpoints are saved at the end of epochs 2 and 4 and of no
\* other epoch, each holding the weights of that moment; checkpoint.pt is
\* written when training completes and then holds the weights as they were
\* after the 5th epoch.
C7_CheckpointSchedule ==
    /\ DOMAIN interval_ckpt = { e \in {2, 4} : e <= EpochsCompleted }
    /\ (pc = "train_iter" /\ iteration = 0 /\ (epoch - 1) \in DOMAIN interval_ckpt) =>
          interval_ckpt[epoch - 1] = weights
    /\ pc \in BeforeTraining \cup InTraining => ~final_written
    /\ pc = "trained" =>
          /\ final_written
          /\ trained = <<weights>>
          /\ final_ckpt = File(trained[1])

C7_Witness ==
    /\ pc = "trained"
    /\ DOMAIN interval_ckpt = {2, 4}
    /\ interval_ckpt[4] # trained[1]
    /\ final_ckpt = File(trained[1])

\* C8: no prediction exists before training has completed and the final
\* checkpoint has been written, and every prediction row is computed with
\* the weights the CheckpointLoader restored from ./eval/checkpoint.pt
\* before the first test image.
C8_RestoreBeforeInference ==
    /\ pc \in BeforeTraining \cup InTraining \cup {"trained", "testready", "inference_error"} =>
          (saver_rows = << >> /\ csv \in {NoCsv, Csv(<<StaleRow>>)})
    /\ pc \in InferenceRan =>
          /\ final_written
          /\ epoch = max_epochs
          /\ restored # << >>
          /\ final_ckpt = File(restored[1])
          /\ Len(used_weights) = Len(saver_rows)
          /\ \A k \in DOMAIN saver_rows :
                /\ used_weights[k] = restored[1]
                /\ saver_rows[k].pred
                      = Argmax(Logits(restored[1], saver_rows[k].fn.img))

C8_Witness ==
    /\ pc = "inferred"
    /\ Len(saver_rows) >= 2
    /\ used_weights[1] = restored[1]

\* C9: the display loop ends normally having printed exactly min(10, N)
\* lines, the first rows of the file in order, and max_items_to_print never
\* goes below 0.
C9_DisplayPrintsMin10 ==
    /\ max_items_to_print >= 0
    /\ Len(printed) <= max_items_to_print0
    /\ \A k \in DOMAIN printed : printed[k][1] = csv.rows[k].fn
    /\ pc # "display_error"
    /\ pc = "done" => Len(printed) = Min(max_items_to_print0, Len(csv.rows))

\* C10: the weights of the model after the CheckpointLoader has run are the
\* weights it had when trainer.run() completed.
C10_SaveLoadRoundTrip ==
    /\ pc \in {"trained", "testready", "inference_error"} => weights = trained[1]
    /\ pc \in InferenceRan =>
          /\ restored = trained
          /\ weights = trained[1]

C10_Witness ==
    /\ pc = "infer_iter"
    /\ test_pos >= 1
    /\ \E w \in Weights : w # trained[1] /\ (\E e \in DOMAIN interval_ckpt : interval_ckpt[e] = w)

====
